---- MODULE Spec2Model ----
(***************************************************************************)
(* Phonotactic RNN language model (notebooks/class.ipynb): the data        *)
(* pipeline process_data, the module Emb_RNNLM, the trainer train_lm, the  *)
(* evaluator compute_perplexity, the scorer get_probs and the sequence     *)
(* run_full_pipeline makes of them, as state machines.                     *)
(*                                                                         *)
(* Python lists and tensors are TLA+ sequences (1-based); an index ix of   *)
(* the code (0-based) is kept as the code's number, so inventory[ix] of    *)
(* the code is inventory[ix + 1] here.                                     *)
(***************************************************************************)
EXTENDS Integers, Sequences, FiniteSets, TLC

VARIABLES
    \* ---- process_data ----
    string_training_data,  \* argument: the corpus, a list of lists of phones
    dev_flag,              \* argument dev (bool)
    training_split,        \* argument training_split (percent)
    pd_pc,                 \* "ready" | "returned" | "raised"
    pd_exc,                \* the exception that ended the call, "" if none
    shuffled,              \* string_training_data after random.shuffle
    padded,                \* string_training_data after padding
    inventory,             \* the phone inventory (list)
    phone2ix,              \* dict phone -> index
    ix2phone,              \* dict index -> phone
    as_ixs,                \* the encoded sequences, in shuffled order
    training_data,         \* returned training set
    dev,                   \* returned development set
    \* ---- the model and compute_perplexity ----
    net,                   \* the parameters of the network
    ev_bsz,                \* argument bsz of compute_perplexity
    ev,                    \* the last call of compute_perplexity, NoCall if none
    ev_calls,              \* how many calls of compute_perplexity were made
    \* ---- Emb_RNNLM(params): the module object ----
    training,              \* net.training, the mode of the module
    R2o_weight,            \* the parameter object R2o.weight refers to
    weight,                \* the value of every parameter object of the module
    printed,               \* what the constructor has printed
    \* ---- the gradients and the optimizer of train_lm ----
    grad,                  \* backward passes summed in .grad since it was zeroed
    opt_state,             \* the optimizer's state: the steps it has taken
    \* ---- train_lm(training_data, dev, params, net) ----
    params,                \* argument params: batch_size and epochs
    tr_pc,                 \* "idle" | "epoch" | "batch" | "stopped" | "done"
    epoch,                 \* loop variable of the epoch loop
    batches,               \* the (start, end) pairs, in this epoch's order
    b_idx,                 \* how many batches of this epoch are processed
    prev_perplexity,       \* the baseline of the early-stopping test
    dev_perplexity,        \* the last validation perplexity
    ep_loss,               \* summed loss of this epoch (logged only)
    last_step,             \* the last training step, NoStep if none
    \* ---- get_probs(input_file, model, phone2ix, out_filename) ----
    input_file,            \* the lines of the input file, each a list of characters
    gp_pc,                 \* "idle" | "read" | "raised" | "done"
    gp_exc,                \* the exception that ended the call, "" if none
    line_no,               \* how many lines the first loop has taken
    as_strings,            \* local list as_strings
    data_tens,             \* local list data_tens
    w_idx,                 \* how many words the second loop has taken
    out_file               \* the rows written to the output file

pdVars == << string_training_data, dev_flag, training_split, pd_pc, pd_exc,
             shuffled, padded, inventory, phone2ix, ix2phone, as_ixs,
             training_data, dev >>

evVars == << net, ev_bsz, ev, ev_calls >>

mdVars == << training, R2o_weight, weight, printed >>

opVars == << grad, opt_state >>

trVars == << params, tr_pc, epoch, batches, b_idx, prev_perplexity,
             dev_perplexity, ep_loss, last_step >>

gpVars == << input_file, gp_pc, gp_exc, line_no, as_strings, data_tens,
             w_idx, out_file >>

vars == << pdVars, evVars, mdVars, opVars, trVars, gpVars >>

----------------------------------------------------------------------------
(* Bounds of the model *)

\* corpora of SpecData hold at most MaxWords words
MaxWords == 3
\* corpora of SpecSplit hold at most MaxCorpus words
MaxCorpus == 11
\* data sets of SpecEval hold at most MaxEvalRows sequences
MaxEvalRows == 3
\* batch sizes tried by SpecEval: 1..MaxBsz
MaxBsz == 3
\* epoch caps tried by SpecTrain: 0..MaxEpochs
MaxEpochs == 2
\* input files of SpecScore hold at most MaxLines lines
MaxLines == 2

----------------------------------------------------------------------------
(* Python helpers *)

Min(a, b) == IF a < b THEN a ELSE b
Max(a, b) == IF a > b THEN a ELSE b

\* s[start:stop] of Python for a list of length Len(s): negative bounds count
\* from the end, bounds are clipped to 0..len
PyIndex(n, i) == IF i < 0 THEN Max(n + i, 0) ELSE Min(i, n)
PySlice(s, start, stop) ==
    LET lo == PyIndex(Len(s), start)
        hi == PyIndex(Len(s), stop)
    IN  IF hi <= lo THEN << >> ELSE SubSeq(s, lo + 1, hi)

Range(s) == { s[i] : i \in 1..Len(s) }

\* all lists that hold the elements of the finite set S once each
Orderings(S) ==
    { f \in [1..Cardinality(S) -> S] : \A x \in S : \E i \in DOMAIN f : f[i] = x }

\* s.count(x)
Count(s, x) == Cardinality({ i \in 1..Len(s) : s[i] = x })

\* the lists random.shuffle can leave in place of s: the rearrangements of s
Shuffles(s) ==
    { t \in [1..Len(s) -> Range(s)] :
        \A x \in Range(s) : Count(t, x) = Count(s, x) }

\* name = value: the right-hand side is evaluated once and F is what
\* follows, with the name bound to that value
Once(value, F(_)) == CHOOSE r \in { F(x) : x \in { value } } : TRUE

\* [x] * k
Repeat(x, k) == [i \in 1..k |-> x]

\* [x for x in s if x != drop]
RECURSIVE FilterOut(_, _)
FilterOut(s, drop) ==
    IF s = << >> THEN << >>
    ELSE IF Head(s) = drop THEN FilterOut(Tail(s), drop)
         ELSE << Head(s) >> \o FilterOut(Tail(s), drop)

----------------------------------------------------------------------------
(* process_data *)

PAD == "<p>"

\* as_ixs[-10:] : the size of the stand-in development set
DevFallback == 10

\* max([len(x) for x in string_training_data]), for a non-empty corpus
MaxChars(data) ==
    CHOOSE m \in { Len(data[i]) : i \in 1..Len(data) } :
        \A i \in 1..Len(data) : Len(data[i]) <= m

\* variant of PadData: the padding is put before the sequence
PadDataLeft(data) ==
    [i \in 1..Len(data) |->
        Repeat(PAD, MaxChars(data) - Len(data[i])) \o data[i]]

\* sequence + ['<p>'] * (max_chars - len(sequence)) for every sequence
PadData(data) ==
    [i \in 1..Len(data) |->
        data[i] \o Repeat(PAD, MaxChars(data) - Len(data[i]))]

\* set(phone for word in string_training_data for phone in word)
PhoneSet(data) == UNION { Range(data[i]) : i \in 1..Len(data) }

\* variant of PadFirst: a '<p>' already in the inventory is kept
PadFirstUnfiltered(inv) == << PAD >> \o inv

\* inventory = ['<p>'] + [x for x in inventory if x != '<p>']
PadFirst(inv) == << PAD >> \o FilterOut(inv, PAD)

\* {p: ix for (ix, p) in enumerate(inventory)}: a later duplicate key wins
Phone2Ix(inv) ==
    [p \in Range(inv) |->
        (CHOOSE i \in 1..Len(inv) :
            inv[i] = p /\ \A j \in 1..Len(inv) : inv[j] = p => j <= i) - 1]

\* {ix: p for (ix, p) in enumerate(inventory)}
Ix2Phone(inv) == [ix \in 0..(Len(inv) - 1) |-> inv[ix + 1]]

\* [torch.LongTensor([phone2ix[p] for p in sequence]) for sequence in data]
Encode(data, p2i) ==
    [i \in 1..Len(data) |-> [j \in 1..Len(data[i]) |-> p2i[data[i][j]]]]

\* int(len(as_ixs) * (training_split/100)).  The code computes this in
\* double precision; the quotient below equals it for every list shorter
\* than 50 (the first difference is at len 50, training_split 58).
SplitPoint(n, pct) == (n * pct) \div 100

\* torch.stack(tensors, 0) raises RuntimeError on an empty list
StackRaises(tensors) == tensors = << >>

\* variant of MaxRaises: max(..., default=0), an empty corpus has length 0
MaxRaisesNever(data) == FALSE

\* max([len(x) for x in data]) raises ValueError on an empty corpus
MaxRaises(data) == data = << >>

\* variant of DevPart: as_ixs[:10] in place of as_ixs[-10:]
DevPartFirst(ixs, d, pct) ==
    IF ~d THEN PySlice(ixs, 0, DevFallback)
    ELSE PySlice(ixs, SplitPoint(Len(ixs), pct), Len(ixs))

\* the two lists the code stacks, in the order it stacks them
TrainPart(ixs, d, pct) ==
    IF ~d THEN ixs ELSE PySlice(ixs, 0, SplitPoint(Len(ixs), pct))
DevPart(ixs, d, pct) ==
    IF ~d THEN PySlice(ixs, 0 - DevFallback, Len(ixs))
    ELSE PySlice(ixs, SplitPoint(Len(ixs), pct), Len(ixs))

PdRaise(exc) ==
    /\ pd_pc' = "raised"
    /\ pd_exc' = exc
    /\ UNCHANGED << string_training_data, dev_flag, training_split, shuffled,
                    padded, inventory, phone2ix, ix2phone, as_ixs,
                    training_data, dev, evVars, mdVars, opVars, trVars,
                    gpVars >>

\* one call of process_data(string_training_data, dev, training_split)
ProcessData ==
    /\ pd_pc = "ready"
    /\ IF MaxRaises(string_training_data)
       THEN PdRaise("ValueError")        \* max() of an empty list
       ELSE \E sh \in Shuffles(string_training_data) :
            LET pdd == PadData(sh)
            IN  \E setOrder \in Orderings(PhoneSet(pdd)) :
                LET inv  == PadFirst(setOrder)
                    p2i  == Phone2Ix(inv)
                    ixs  == Encode(pdd, p2i)
                    trn  == TrainPart(ixs, dev_flag, training_split)
                    dv   == DevPart(ixs, dev_flag, training_split)
                IN  IF StackRaises(trn) \/ StackRaises(dv)
                    THEN PdRaise("RuntimeError")
                    ELSE /\ pd_pc' = "returned"
                         /\ pd_exc' = ""
                         /\ shuffled' = sh
                         /\ padded' = pdd
                         /\ inventory' = inv
                         /\ phone2ix' = p2i
                         /\ ix2phone' = Ix2Phone(inv)
                         /\ as_ixs' = ixs
                         /\ training_data' = trn
                         /\ dev' = dv
                         /\ UNCHANGED << string_training_data, dev_flag,
                                         training_split, evVars, mdVars,
                                         opVars, trVars, gpVars >>

----------------------------------------------------------------------------
(* Floats.  A float is a record: Fin(v) is the number v/1000 (a negative    *)
(* log-likelihood is a whole number of milli-nats), Exp(q) is the number    *)
(* e^(q/1000), and NaN and Inf are the two floats that are not finite.      *)

Fin(v) == [k |-> "fin", v |-> v]
Exp(q) == [k |-> "exp", v |-> q]
NaN == [k |-> "nan", v |-> 0]
Inf == [k |-> "inf", v |-> 0]

\* x / n for a float x and a count n: 0/0 is nan, v/0 is inf
Div(x, n) ==
    IF x.k # "fin" THEN x
    ELSE IF n = 0 THEN (IF x.v = 0 THEN NaN ELSE Inf)
    ELSE Fin(x.v \div n)

\* x + y of floats
Add(x, y) ==
    IF x.k = "nan" \/ y.k = "nan" THEN NaN
    ELSE IF x.k = "inf" \/ y.k = "inf" THEN Inf
    ELSE Fin(x.v + y.v)

\* torch.exp(q): the exponential is kept as Exp(q) and compared through
\* ExpSeries below, never stored rounded
TorchExp(q) == IF q.k = "fin" THEN Exp(q.v) ELSE q

\* e^(x/1000) in units of 10^-5 by its power series, for 0 <= x <= SeriesMax
SeriesScale == 100000
SeriesMax == 3000
SeriesTerms == 16
RECURSIVE ExpSeriesFrom(_, _, _)
ExpSeriesFrom(x, k, term) ==
    IF k > SeriesTerms THEN 0
    ELSE term + ExpSeriesFrom(x, k + 1, (term * x) \div (1000 * (k + 1)))
ExpSeries(x) == ExpSeriesFrom(x, 0, SeriesScale)

\* e^(a/1000) - e^(b/1000) > 0.01 for exponents a, b >= 0.  Above SeriesMax
\* the difference of two different exponentials is more than 0.01: it is at
\* least e^3 * (e^0.001 - 1) > 0.02.
ExpDiffExceedsTolerance(a, b) ==
    IF a <= b THEN FALSE
    ELSE IF a > SeriesMax THEN TRUE
    ELSE ExpSeries(a) - ExpSeries(b) > SeriesScale \div 100

\* x - y > 0.01 for two floats that are exponentials, nan or inf
DiffExceedsTolerance(x, y) ==
    IF x.k = "nan" \/ y.k = "nan" THEN FALSE
    ELSE IF x.k = "inf" THEN y.k # "inf"
    ELSE IF y.k = "inf" THEN FALSE
    ELSE ExpDiffExceedsTolerance(x.v, y.v)

----------------------------------------------------------------------------
(* Emb_RNNLM.forward and the loss *)

\* before any Emb_RNNLM is constructed
NoNet == -1

\* The parameters of the network are one number.  DivergedNet stands for
\* parameters that have blown up; the others for ordinary parameters.
DivergedNet == 0
Nets == { DivergedNet, 1, 2 }

\* forward(batch): one score vector per row and position.  The recurrence
\* reads the row left to right, so the vector at position pos is a function
\* of the parameters and of the symbols at positions 0..pos (ctx); row and
\* pos name the place of the vector in the output tensor.
Forward(batch) ==
    [r \in 1..Len(batch) |->
        [t \in 1..Len(batch[r]) |->
            [row |-> r - 1, pos |-> t - 1, ctx |-> SubSeq(batch[r], 1, t)]]]

\* -log softmax(score)[target] in milli-nats: some positive number fixed by
\* the parameters, the context and the target
NllTerm(theta, score, target) ==
    IF theta = DivergedNet THEN 10000000
    ELSE 100 * (1 + ((3 * theta + Len(score.ctx)
                      + 2 * score.ctx[Len(score.ctx)] + target) % 7))

\* The two weight matrices are kept as parameter objects, by name: a tied
\* module has one object under both attributes.  A value of a matrix is one
\* number.
EmbeddingsWeight == "embeddings.weight"
OwnR2oWeight == "R2o.weight"
WeightValues == { 0, 1 }
TiedDiagnostic == "Dimensions don't support tied embeddings"

\* variant of R2oWeightObject: params['tied'] is not read
R2oWeightObjectOwn(p) == OwnR2oWeight

\* the object R2o.weight refers to when __init__ returns: nn.Linear makes
\* its own, and it is replaced by embeddings.weight if params['tied'] and
\* d_emb == d_hid
R2oWeightObject(p) ==
    IF p.tied /\ p.d_emb = p.d_hid THEN EmbeddingsWeight ELSE OwnR2oWeight

\* net.parameters() restricted to the two matrices: every object once
Parameters(r2o) == { EmbeddingsWeight, r2o }

\* RNN = Emb_RNNLM(params): random initial values, training mode
Construct ==
    /\ net = NoNet
    /\ net' \in Nets
    /\ training' = TRUE
    /\ R2o_weight' = R2oWeightObject(params)
    /\ weight' \in [Parameters(R2oWeightObject(params)) -> WeightValues]
    /\ printed' = IF params.tied /\ params.d_emb # params.d_hid
                  THEN Append(printed, TiedDiagnostic)
                  ELSE printed
    /\ UNCHANGED << pdVars, ev_bsz, ev, ev_calls, opVars, trVars, gpVars >>

\* RNN.eval(), called once between train_lm and get_probs
ModelEval ==
    /\ net # NoNet
    /\ tr_pc \in { "stopped", "done" }
    /\ gp_pc = "idle"
    /\ training
    /\ training' = FALSE
    /\ UNCHANGED << pdVars, evVars, R2o_weight, weight, printed, opVars,
                    trVars, gpVars >>

\* x.contiguous().view(-1, ...) of a tensor given as its rows
RECURSIVE Flatten(_)
Flatten(rows) ==
    IF rows = << >> THEN << >> ELSE Head(rows) \o Flatten(Tail(rows))

\* variant of Preds: preds[:, 1:, :], the scores at the targets' own positions
PredsUnshifted(out) == Flatten([r \in 1..Len(out) |-> PySlice(out[r], 1, Len(out[r]))])

\* preds[:, :-1, :].contiguous().view(-1, net.vocab_size)
Preds(out) == Flatten([r \in 1..Len(out) |-> PySlice(out[r], 0, 0 - 1)])

\* batch[:, 1:].contiguous().view(-1)
Targets(batch) ==
    Flatten([r \in 1..Len(batch) |-> PySlice(batch[r], 1, Len(batch[r]))])

\* the index every criterion ignores
IgnoreIndex == 0

RECURSIVE SumNll(_, _, _, _)
SumNll(theta, preds, targets, i) ==
    IF i > Len(targets) THEN 0
    ELSE (IF targets[i] = IgnoreIndex THEN 0
          ELSE NllTerm(theta, preds[i], targets[i]))
         + SumNll(theta, preds, targets, i + 1)

\* the (row, position, target) of every term the criterion adds up
Terms(preds, targets) ==
    { << preds[i].row, preds[i].pos, targets[i] >> :
        i \in { j \in 1..Len(targets) : targets[j] # IgnoreIndex } }

\* nn.CrossEntropyLoss(ignore_index=0, reduction=...)(preds, targets)
CrossEntropyLoss(reduction, theta, preds, targets) ==
    LET total == SumNll(theta, preds, targets, 1)
        kept  == Cardinality({ j \in 1..Len(targets) : targets[j] # IgnoreIndex })
    IN  IF reduction = "sum" THEN Fin(total) ELSE Div(Fin(total), kept)

----------------------------------------------------------------------------
(* compute_perplexity *)

\* bsz=64
DefaultBsz == 64

\* variant of Batches: range(0, num_examples - bsz + 1, bsz), full batches
\* only
BatchesDropLast(num_examples, bsz) ==
    [k \in 1..(num_examples \div bsz) |->
        << (k - 1) * bsz, (k - 1) * bsz + bsz >>]

\* [(start, start + bsz) for start in range(0, num_examples, bsz)]
Batches(num_examples, bsz) ==
    [k \in 1..((num_examples + bsz - 1) \div bsz) |->
        << (k - 1) * bsz, (k - 1) * bsz + bsz >>]

\* torch.nonzero(batch).size(0)
RECURSIVE Nonzero(_)
Nonzero(batch) ==
    IF batch = << >> THEN 0
    ELSE Cardinality({ j \in 1..Len(Head(batch)) : Head(batch)[j] # 0 })
         + Nonzero(Tail(batch))

\* the terms of a batch that starts at row `start` of its data set
TermsAt(start, terms) == { << t[1] + start, t[2], t[3] >> : t \in terms }

\* variant of GradAfterEval: loss.backward() in the loop of the evaluator
GradAfterEvalBackward(g) == g + 1

\* the .grad of the parameters after compute_perplexity: the loss is only
\* detached and added up, backward() is not called
GradAfterEval(g) == g

\* variant of EvalBatch: nll = loss and total_unmasked_tokens = ut, without +=
EvalBatchOverwrite(dataset, theta, b, acc) ==
    Once(PySlice(dataset, b[1], b[2]), LAMBDA batch :
    Once(Nonzero(batch), LAMBDA ut :
    Once(Forward(batch), LAMBDA out :
    Once(Targets(batch), LAMBDA targets :
    Once(Preds(out), LAMBDA preds :
    Once(CrossEntropyLoss("sum", theta, preds, targets), LAMBDA loss :
        [nll |-> loss,
         total_unmasked_tokens |-> ut,
         terms |-> TermsAt(b[1], Terms(preds, targets))]))))))

\* one iteration of the loop over batches
EvalBatch(dataset, theta, b, acc) ==
    Once(PySlice(dataset, b[1], b[2]), LAMBDA batch :
    Once(Nonzero(batch), LAMBDA ut :
    Once(Forward(batch), LAMBDA out :
    Once(Targets(batch), LAMBDA targets :
    Once(Preds(out), LAMBDA preds :
    Once(CrossEntropyLoss("sum", theta, preds, targets), LAMBDA loss :
        [nll |-> Add(acc.nll, loss),
         total_unmasked_tokens |-> acc.total_unmasked_tokens + ut,
         terms |-> acc.terms \cup TermsAt(b[1], Terms(preds, targets))]))))))

RECURSIVE EvalLoop(_, _, _, _, _)
EvalLoop(dataset, theta, bs, i, acc) ==
    IF i > Len(bs) THEN acc
    ELSE EvalLoop(dataset, theta, bs, i + 1,
                  EvalBatch(dataset, theta, bs[i], acc))

\* what the loop of compute_perplexity has accumulated when it ends
Accumulate(dataset, theta, bsz) ==
    EvalLoop(dataset, theta, Batches(Len(dataset), bsz), 1,
             [nll |-> Fin(0), total_unmasked_tokens |-> 0, terms |-> {}])

\* compute_perplexity(dataset, net, bsz): the call with what it returned
ComputePerplexity(dataset, theta, bsz) ==
    Once(Accumulate(dataset, theta, bsz), LAMBDA acc :
        [dataset |-> dataset,
         net |-> theta,
         bsz |-> bsz,
         nll |-> acc.nll,
         total_unmasked_tokens |-> acc.total_unmasked_tokens,
         terms |-> acc.terms,
         perplexity |-> TorchExp(Div(acc.nll, acc.total_unmasked_tokens))])

NoCall == [dataset |-> << >>, net |-> NoNet, bsz |-> 0, nll |-> Fin(0), total_unmasked_tokens |-> 0,
           terms |-> {}, perplexity |-> NaN]

\* a call compute_perplexity(dev, net, bsz) on its own
Evaluate ==
    /\ ev = NoCall
    /\ ev' = ComputePerplexity(dev, net, ev_bsz)
    /\ ev_calls' = ev_calls + 1
    /\ grad' = GradAfterEval(grad)
    /\ UNCHANGED << pdVars, net, ev_bsz, mdVars, opt_state, trVars, gpVars >>

----------------------------------------------------------------------------
(* train_lm *)

\* prev_perplexity = 1e10, as an exponential: ln(1e10) = 23.02585..., and an
\* exponent of whole milli-nats is larger than that iff it is larger than
\* 23025
Sentinel == Exp(23025)

NoStep == [batch |-> << >>, start |-> 0, net |-> NoNet, loss |-> Fin(0),
           terms |-> {}, updated |-> FALSE]

\* the parameters optimizer.step() can leave: any, the gradient is not
\* modelled
StepResults(theta, loss) == Nets

\* the call: criterion, optimizer, batches and the baseline are set up
TrainStart ==
    /\ tr_pc = "idle"
    /\ net # NoNet
    /\ opt_state' = 0
    /\ batches' = Batches(Len(training_data), params.batch_size)
    /\ prev_perplexity' = Sentinel
    /\ epoch' = 0
    /\ tr_pc' = "epoch"
    /\ UNCHANGED << pdVars, evVars, mdVars, grad, params, b_idx,
                    dev_perplexity, ep_loss, last_step, gpVars >>

\* variant of EpochBegin: range(params['epochs'] + 1)
EpochBeginInclusive ==
    /\ tr_pc = "epoch"
    /\ IF epoch <= params.epochs
       THEN /\ ep_loss' = Fin(0)
            /\ batches' \in Shuffles(batches)
            /\ b_idx' = 0
            /\ tr_pc' = "batch"
       ELSE /\ tr_pc' = "done"
            /\ UNCHANGED << ep_loss, batches, b_idx >>
    /\ UNCHANGED << pdVars, evVars, mdVars, opVars, params, epoch,
                    prev_perplexity, dev_perplexity, last_step, gpVars >>

\* for epoch in range(params['epochs']): the head of the loop, and
\* random.shuffle(batches) when an epoch starts
EpochBegin ==
    /\ tr_pc = "epoch"
    /\ IF epoch < params.epochs
       THEN /\ ep_loss' = Fin(0)
            /\ batches' \in Shuffles(batches)
            /\ b_idx' = 0
            /\ tr_pc' = "batch"
       ELSE /\ tr_pc' = "done"
            /\ UNCHANGED << ep_loss, batches, b_idx >>
    /\ UNCHANGED << pdVars, evVars, mdVars, opVars, params, epoch,
                    prev_perplexity, dev_perplexity, last_step, gpVars >>

\* one iteration of the loop over batches; every local is a value bound
\* once (a one-element set)
BatchStep ==
    /\ tr_pc = "batch"
    /\ b_idx < Len(batches)
    /\ \E b \in { batches[b_idx + 1] } :
       \E batch \in { PySlice(training_data, b[1], b[2]) } :
       \E out \in { Forward(batch) } :
       \E preds \in { Preds(out) } :
       \E targets \in { Targets(batch) } :
       \E loss \in { CrossEntropyLoss("mean", net, preds, targets) } :
           /\ net' \in StepResults(net, loss)
           /\ weight' \in [Parameters(R2o_weight) -> WeightValues]
           /\ ep_loss' = Add(ep_loss, loss)
           /\ last_step' = [batch |-> batch, start |-> b[1], net |-> net,
                            loss |-> loss, terms |-> Terms(preds, targets),
                            updated |-> TRUE]
    /\ opt_state' = opt_state + 1      \* optimizer.step()
    /\ grad' = 0                       \* optimizer.zero_grad()
    /\ b_idx' = b_idx + 1
    /\ UNCHANGED << pdVars, ev_bsz, ev, ev_calls, training, R2o_weight,
                    printed, params, tr_pc, epoch, batches, prev_perplexity,
                    dev_perplexity, gpVars >>

\* after the last batch: the validation perplexity and the early-stopping
\* test; prev_perplexity is not assigned
EpochEnd ==
    /\ tr_pc = "batch"
    /\ b_idx = Len(batches)
    /\ \E call \in { ComputePerplexity(dev, net, DefaultBsz) } :
           /\ ev' = call
           /\ dev_perplexity' = call.perplexity
           /\ IF DiffExceedsTolerance(call.perplexity, prev_perplexity)
              THEN tr_pc' = "stopped" /\ epoch' = epoch
              ELSE tr_pc' = "epoch" /\ epoch' = epoch + 1
    /\ ev_calls' = ev_calls + 1
    /\ grad' = GradAfterEval(grad)
    /\ UNCHANGED << pdVars, net, ev_bsz, mdVars, opt_state, params, batches,
                    b_idx, prev_perplexity, ep_loss, last_step, gpVars >>

----------------------------------------------------------------------------
(* get_probs.  A line of the file is a list of characters, without its     *)
(* newline; a phone of the vocabulary is one character or a marker.        *)

\* line.rstrip(): trailing blanks are dropped
RECURSIVE RStrip(_)
RStrip(line) ==
    IF line # << >> /\ line[Len(line)] = " "
    THEN RStrip(SubSeq(line, 1, Len(line) - 1))
    ELSE line

\* line.split(' '): the pieces between blanks, empty pieces included
RECURSIVE SplitFrom(_, _, _)
SplitFrom(line, i, piece) ==
    IF i > Len(line) THEN << piece >>
    ELSE IF line[i] = " " THEN << piece >> \o SplitFrom(line, i + 1, << >>)
    ELSE SplitFrom(line, i + 1, Append(piece, line[i]))
Split(line) == SplitFrom(line, 1, << >>)

\* the string a piece is: a piece of one character is that character; the
\* empty piece and a piece of several characters are strings that are no
\* phone of any vocabulary of the model
StrOf(piece) ==
    IF Len(piece) = 1 THEN piece[1]
    ELSE IF piece = << >> THEN "" ELSE "<several characters>"

\* ['<s>'] + line.split(' ') + ['<e>'] of the stripped line
Bracketed(line) ==
    LET pieces == Split(RStrip(line))
    IN  << "<s>" >> \o [i \in 1..Len(pieces) |-> StrOf(pieces[i])] \o << "<e>" >>

\* the two files are opened; the output file is emptied
GpOpen ==
    /\ gp_pc = "idle"
    /\ gp_pc' = "read"
    /\ out_file' = << >>
    /\ data_tens' = << >>
    /\ as_strings' = << >>
    /\ line_no' = 0
    /\ UNCHANGED << pdVars, evVars, mdVars, opVars, trVars, input_file,
                    gp_exc, w_idx >>

\* variant of GpReadLine: phone2ix.get(p, 0), an unknown symbol becomes 0
GpReadLineLenient ==
    /\ gp_pc = "read"
    /\ line_no < Len(input_file)
    /\ LET line == RStrip(input_file[line_no + 1])
           word == Bracketed(input_file[line_no + 1])
       IN  /\ as_strings' = Append(as_strings, FilterOut(line, " "))
           /\ line_no' = line_no + 1
           /\ data_tens' = Append(data_tens,
                  [j \in 1..Len(word) |->
                      IF word[j] \in DOMAIN phone2ix THEN phone2ix[word[j]]
                      ELSE 0])
           /\ UNCHANGED << gp_pc, gp_exc >>
    /\ UNCHANGED << pdVars, evVars, mdVars, opVars, trVars, input_file,
                    w_idx, out_file >>

\* one iteration of the loop over the lines of the input file
GpReadLine ==
    /\ gp_pc = "read"
    /\ line_no < Len(input_file)
    /\ LET line == RStrip(input_file[line_no + 1])
           word == Bracketed(input_file[line_no + 1])
       IN  /\ as_strings' = Append(as_strings, FilterOut(line, " "))
           /\ line_no' = line_no + 1
           /\ IF \E j \in 1..Len(word) : word[j] \notin DOMAIN phone2ix
              THEN \* phone2ix[p] raises KeyError
                   /\ gp_pc' = "raised"
                   /\ gp_exc' = "KeyError"
                   /\ UNCHANGED data_tens
              ELSE /\ data_tens' =
                        Append(data_tens,
                               [j \in 1..Len(word) |-> phone2ix[word[j]]])
                   /\ UNCHANGED << gp_pc, gp_exc >>
    /\ UNCHANGED << pdVars, evVars, mdVars, opVars, trVars, input_file,
                    w_idx, out_file >>

\* variant of GpWriteRow: the tensors are taken from the end of data_tens
GpWriteRowReversed ==
    /\ gp_pc = "read"
    /\ line_no = Len(input_file)
    /\ w_idx < Len(data_tens)
    /\ LET word == data_tens[Len(data_tens) - w_idx]
           curr_string == as_strings[w_idx + 1]
           call == ComputePerplexity(<< word >>, net, DefaultBsz)
       IN  /\ ev' = call
           /\ out_file' = Append(out_file, << curr_string, call.perplexity >>)
    /\ w_idx' = w_idx + 1
    /\ ev_calls' = ev_calls + 1
    /\ grad' = GradAfterEval(grad)
    /\ UNCHANGED << pdVars, net, ev_bsz, mdVars, opt_state, trVars,
                    input_file, gp_pc, gp_exc, line_no, as_strings,
                    data_tens >>

\* one iteration of the loop over data_tens: the word alone is evaluated
\* and its row is written
GpWriteRow ==
    /\ gp_pc = "read"
    /\ line_no = Len(input_file)
    /\ w_idx < Len(data_tens)
    /\ LET word == data_tens[w_idx + 1]
           curr_string == as_strings[w_idx + 1]
           call == ComputePerplexity(<< word >>, net, DefaultBsz)
       IN  /\ ev' = call
           /\ out_file' = Append(out_file, << curr_string, call.perplexity >>)
    /\ w_idx' = w_idx + 1
    /\ ev_calls' = ev_calls + 1
    /\ grad' = GradAfterEval(grad)
    /\ UNCHANGED << pdVars, net, ev_bsz, mdVars, opt_state, trVars,
                    input_file, gp_pc, gp_exc, line_no, as_strings,
                    data_tens >>

\* both loops are over: the files are closed
GpClose ==
    /\ gp_pc = "read"
    /\ line_no = Len(input_file)
    /\ w_idx = Len(data_tens)
    /\ gp_pc' = "done"
    /\ UNCHANGED << pdVars, evVars, mdVars, opVars, trVars, input_file,
                    gp_exc, line_no, as_strings, data_tens, w_idx, out_file >>

----------------------------------------------------------------------------
(* Specifications of process_data *)

\* sample words, bracketed as get_corpus_data leaves them
Lexicon ==
    { << "<s>", "a", "<e>" >>,
      << "<s>", "b", "<e>" >>,
      << "<s>", "a", "b", "<e>" >> }

Corpora(maxLen) == UNION { [1..n -> Lexicon] : n \in 0..maxLen }

GpIdle ==
    /\ input_file = << >>
    /\ gp_pc = "idle"
    /\ gp_exc = ""
    /\ line_no = 0
    /\ as_strings = << >>
    /\ data_tens = << >>
    /\ w_idx = 0
    /\ out_file = << >>

TrIdle ==
    /\ GpIdle
    /\ params = [batch_size |-> DefaultBsz, epochs |-> 0]
    /\ tr_pc = "idle"
    /\ epoch = 0
    /\ batches = << >>
    /\ b_idx = 0
    /\ prev_perplexity = NaN
    /\ dev_perplexity = NaN
    /\ ep_loss = Fin(0)
    /\ last_step = NoStep

\* no module is constructed
MdIdle ==
    /\ training = FALSE
    /\ R2o_weight = ""
    /\ weight = << >>
    /\ printed = << >>
    /\ grad = 0
    /\ opt_state = 0

\* a module with tied matrices as the constructor leaves it
MdTied ==
    /\ training = TRUE
    /\ R2o_weight = EmbeddingsWeight
    /\ weight = [o \in Parameters(EmbeddingsWeight) |-> 0]
    /\ printed = << >>
    /\ grad = 0
    /\ opt_state = 0

EvIdle ==
    /\ TrIdle
    /\ MdIdle
    /\ net = NoNet
    /\ ev_bsz = DefaultBsz
    /\ ev = NoCall
    /\ ev_calls = 0

PdInitOutputs ==
    /\ pd_pc = "ready"
    /\ pd_exc = ""
    /\ shuffled = << >>
    /\ padded = << >>
    /\ inventory = << >>
    /\ phone2ix = << >>
    /\ ix2phone = << >>
    /\ as_ixs = << >>

DefaultSplit == 60

InitData ==
    /\ EvIdle
    /\ string_training_data \in Corpora(MaxWords)
    /\ dev_flag \in BOOLEAN
    /\ training_split = DefaultSplit
    /\ PdInitOutputs
    /\ training_data = << >>
    /\ dev = << >>

NextData == ProcessData

SpecData == InitData /\ [][NextData]_vars

\* corpora for the split: n short words, of which at most two are replaced
\* by the long word, in corpus-file order (the long words first)
ShortWord == << "<s>", "a", "<e>" >>
LongWord == << "<s>", "a", "a", "<e>" >>
SplitCorpora ==
    { [i \in 1..n |-> IF i <= k THEN LongWord ELSE ShortWord] :
        n \in 0..MaxCorpus, k \in 0..2 }

\* the training percentages tried
Splits == { 0, 50, 60, 99, 100 }

InitSplit ==
    /\ EvIdle
    /\ string_training_data \in SplitCorpora
    /\ dev_flag \in BOOLEAN
    /\ training_split \in Splits
    /\ PdInitOutputs
    /\ training_data = << >>
    /\ dev = << >>

NextSplit == ProcessData

SpecSplit == InitSplit /\ [][NextSplit]_vars

----------------------------------------------------------------------------
(* Specification of compute_perplexity on its own *)

\* sample encoded sequences of length 3 over the indices 0 ('<p>'), 1, 2, 3:
\* a full row, two right-padded rows and a row with a repeated symbol
SampleRows == { << 1, 2, 3 >>, << 1, 3, 0 >>, << 1, 0, 0 >>, << 1, 2, 2 >> }

DataSets(maxRows) == UNION { [1..n -> SampleRows] : n \in 1..maxRows }

InitEval ==
    /\ PdInitOutputs
    /\ string_training_data = << >>
    /\ dev_flag = TRUE
    /\ training_split = DefaultSplit
    /\ training_data = << >>
    /\ dev \in DataSets(MaxEvalRows)
    /\ net \in Nets
    /\ ev_bsz \in 1..MaxBsz
    /\ ev = NoCall
    /\ ev_calls = 0
    /\ MdTied
    /\ TrIdle

NextEval == Evaluate

SpecEval == InitEval /\ [][NextEval]_vars

----------------------------------------------------------------------------
(* Specification of train_lm *)

\* sample training sets: one row, a row whose targets are all padding next
\* to a full row, and three rows (two batches of size 2, the last one short)
TrainSets ==
    { << << 1, 2, 3 >> >>,
      << << 1, 0, 0 >>, << 1, 2, 3 >> >>,
      << << 1, 3, 0 >>, << 1, 2, 2 >>, << 1, 2, 3 >> >> }

\* sample development sets
DevSets ==
    { << << 1, 2, 3 >> >>,
      << << 1, 3, 0 >>, << 1, 2, 2 >> >> }

BatchSizes == { 1, 2 }

InitTrain ==
    /\ PdInitOutputs
    /\ string_training_data = << >>
    /\ dev_flag = TRUE
    /\ training_split = DefaultSplit
    /\ training_data \in TrainSets
    /\ dev \in DevSets
    /\ net \in Nets
    /\ ev_bsz = DefaultBsz
    /\ ev = NoCall
    /\ ev_calls = 0
    /\ MdTied
    /\ params \in [batch_size : BatchSizes, epochs : 0..MaxEpochs]
    /\ tr_pc = "idle"
    /\ epoch = 0
    /\ batches = << >>
    /\ b_idx = 0
    /\ prev_perplexity = NaN
    /\ dev_perplexity = NaN
    /\ ep_loss = Fin(0)
    /\ last_step = NoStep
    /\ GpIdle

NextTrain == TrainStart \/ EpochBegin \/ BatchStep \/ EpochEnd

SpecTrain == InitTrain /\ [][NextTrain]_vars

\* train_lm is sequential code: whenever it has a next statement, that
\* statement is executed
SpecTrainLive == SpecTrain /\ WF_vars(NextTrain)

----------------------------------------------------------------------------
(* Specification of get_probs *)

\* the vocabulary of a corpus whose only phone is a
SampleInventory == << PAD, "<s>", "a", "<e>" >>

\* sample lines: "a", "a a", "a " (trailing blank), "x" and "a x" (x is no
\* phone of the vocabulary), "aa" (no separator) and the empty line
SampleLines ==
    { << "a" >>, << "a", " ", "a" >>, << "a", " " >>, << "x" >>,
      << "a", " ", "x" >>, << "a", "a" >>, << >> }

InitScore ==
    /\ string_training_data = << >>
    /\ dev_flag = TRUE
    /\ training_split = DefaultSplit
    /\ pd_pc = "returned"
    /\ pd_exc = ""
    /\ shuffled = << >>
    /\ padded = << >>
    /\ inventory = SampleInventory
    /\ phone2ix = Phone2Ix(SampleInventory)
    /\ ix2phone = Ix2Phone(SampleInventory)
    /\ as_ixs = << >>
    /\ training_data = << >>
    /\ dev = << >>
    /\ net \in Nets
    /\ ev_bsz = DefaultBsz
    /\ ev = NoCall
    /\ ev_calls = 0
    /\ training = FALSE
    /\ R2o_weight = EmbeddingsWeight
    /\ weight = [o \in Parameters(EmbeddingsWeight) |-> 0]
    /\ printed = << >>
    /\ grad = 0
    /\ opt_state = 0
    /\ params = [batch_size |-> DefaultBsz, epochs |-> 0]
    /\ tr_pc = "done"
    /\ epoch = 0
    /\ batches = << >>
    /\ b_idx = 0
    /\ prev_perplexity = Sentinel
    /\ dev_perplexity = NaN
    /\ ep_loss = Fin(0)
    /\ last_step = NoStep
    /\ input_file \in UNION { [1..n -> SampleLines] : n \in 0..MaxLines }
    /\ gp_pc = "idle"
    /\ gp_exc = ""
    /\ line_no = 0
    /\ as_strings = << >>
    /\ data_tens = << >>
    /\ w_idx = 0
    /\ out_file = << >>

NextScore == GpOpen \/ GpReadLine \/ GpWriteRow \/ GpClose

SpecScore == InitScore /\ [][NextScore]_vars

----------------------------------------------------------------------------
(* Specification of the pipeline: Emb_RNNLM(params), train_lm, RNN.eval(), *)
(* get_probs, on data process_data has returned                            *)

\* the values of d_emb and d_hid tried (the notebook uses these two)
Dims == { 24, 64 }

\* sample input files of one and of two words
PipelineFiles == { << << "a" >> >>, << << "a", " ", "a" >>, << "a" >> >> }

\* get_probs is called after RNN.eval()
ScoreStart ==
    /\ tr_pc \in { "stopped", "done" }
    /\ ~training
    /\ GpOpen

InitPipeline ==
    /\ string_training_data = << >>
    /\ dev_flag = TRUE
    /\ training_split = DefaultSplit
    /\ pd_pc = "returned"
    /\ pd_exc = ""
    /\ shuffled = << >>
    /\ padded = << >>
    /\ inventory = SampleInventory
    /\ phone2ix = Phone2Ix(SampleInventory)
    /\ ix2phone = Ix2Phone(SampleInventory)
    /\ as_ixs = << >>
    /\ training_data = << << 1, 3, 0 >>, << 1, 2, 2 >>, << 1, 2, 3 >> >>
    /\ dev = << << 1, 2, 3 >> >>
    /\ net = NoNet
    /\ ev_bsz = DefaultBsz
    /\ ev = NoCall
    /\ ev_calls = 0
    /\ MdIdle
    /\ params \in [batch_size : { 2 }, epochs : 0..MaxEpochs,
                    d_emb : Dims, d_hid : Dims, tied : BOOLEAN]
    /\ tr_pc = "idle"
    /\ epoch = 0
    /\ batches = << >>
    /\ b_idx = 0
    /\ prev_perplexity = NaN
    /\ dev_perplexity = NaN
    /\ ep_loss = Fin(0)
    /\ last_step = NoStep
    /\ input_file \in PipelineFiles
    /\ gp_pc = "idle"
    /\ gp_exc = ""
    /\ line_no = 0
    /\ as_strings = << >>
    /\ data_tens = << >>
    /\ w_idx = 0
    /\ out_file = << >>

NextPipeline ==
    \/ Construct
    \/ TrainStart \/ EpochBegin \/ BatchStep \/ EpochEnd
    \/ ModelEval
    \/ ScoreStart \/ GpReadLine \/ GpWriteRow \/ GpClose

SpecPipeline == InitPipeline /\ [][NextPipeline]_vars

----------------------------------------------------------------------------
(* Claims about process_data *)

NumWords == Len(string_training_data)

\* the length of the longest input sequence
LongestInput ==
    CHOOSE m \in 0..100 :
        /\ \E i \in 1..NumWords : Len(string_training_data[i]) = m
        /\ \A i \in 1..NumWords : Len(string_training_data[i]) <= m

\* C5: the vocabulary process_data returns has '<p>' at index 0 and nowhere
\* else, holds every symbol of the corpus exactly once, and phone2ix and
\* ix2phone are inverse to each other on all symbols and all indices.
C5_VocabularyRoundTrip ==
    pd_pc = "returned" =>
        /\ inventory[1] = PAD
        /\ Count(inventory, PAD) = 1
        /\ phone2ix[PAD] = 0
        /\ \A s \in PhoneSet(string_training_data) : Count(inventory, s) = 1
        /\ DOMAIN phone2ix = Range(inventory)
        /\ DOMAIN ix2phone = 0..(Len(inventory) - 1)
        /\ \A s \in Range(inventory) : ix2phone[phone2ix[s]] = s
        /\ \A i \in 0..(Len(inventory) - 1) : phone2ix[ix2phone[i]] = i

\* C5 witness: a vocabulary built from a corpus of two different words of
\* the same length, so that no padding was inserted.
C5_Witness ==
    /\ pd_pc = "returned"
    /\ padded = shuffled
    /\ Cardinality(Range(string_training_data)) = 2
    /\ Len(inventory) = 5

\* row is the encoding of word followed by padding only
EncodesPadded(row, word) ==
    /\ Len(row) >= Len(word)
    /\ \A j \in 1..Len(word) : row[j] # 0 /\ ix2phone[row[j]] = word[j]
    /\ \A j \in (Len(word) + 1)..Len(row) : row[j] = 0

\* C6: every encoded sequence returned (training and development set) has
\* the length of the longest input sequence and is the index sequence of an
\* input word, in order, followed by padding index 0 only; the i-th encoded
\* sequence is that of the i-th shuffled word.
C6_UniformRightPadding ==
    pd_pc = "returned" =>
        /\ \A i \in 1..Len(training_data) :
              /\ Len(training_data[i]) = LongestInput
              /\ \E w \in Range(string_training_data) :
                    EncodesPadded(training_data[i], w)
        /\ \A i \in 1..Len(dev) :
              /\ Len(dev[i]) = LongestInput
              /\ \E w \in Range(string_training_data) :
                    EncodesPadded(dev[i], w)
        /\ Len(as_ixs) = NumWords
        /\ \A i \in 1..Len(as_ixs) : EncodesPadded(as_ixs[i], shuffled[i])

\* C6 witness: a returned data set in which a short word was padded and a
\* longest word was not, both sets being non-empty.
C6_Witness ==
    /\ pd_pc = "returned"
    /\ dev_flag
    /\ \E i \in 1..Len(training_data) : training_data[i][LongestInput] = 0
    /\ \E i \in 1..Len(dev) : dev[i][LongestInput] # 0

\* floor(n * f / 100)
FloorSplit == (NumWords * training_split) \div 100

\* C9: with a validation split requested and n >= 1, process_data returns
\* the first floor(n*f/100) encoded sequences of the shuffled corpus as
\* training set and the remaining ones as validation set.
C9_SplitAtFloor ==
    (pd_pc # "ready" /\ dev_flag /\ NumWords >= 1) =>
        /\ pd_pc = "returned"
        /\ Len(as_ixs) = NumWords
        /\ training_data = SubSeq(as_ixs, 1, FloorSplit)
        /\ dev = SubSeq(as_ixs, FloorSplit + 1, NumWords)

\* C10: with the validation split declined and n >= 1, the validation set
\* is the last min(10, n) encoded sequences of the shuffled corpus, in the
\* same order, and is not empty, whatever training_split is.
C10_DevIsLastTen ==
    (pd_pc # "ready" /\ ~dev_flag /\ NumWords >= 1) =>
        /\ pd_pc = "returned"
        /\ Len(as_ixs) = NumWords
        /\ \A i \in 1..NumWords : EncodesPadded(as_ixs[i], shuffled[i])
        /\ dev = SubSeq(as_ixs, NumWords - Min(10, NumWords) + 1, NumWords)
        /\ dev # << >>

\* C10 witness: eleven words, the first of them the only long one, so that
\* the validation set leaves out exactly that word.
C10_Witness ==
    /\ pd_pc = "returned"
    /\ ~dev_flag
    /\ NumWords = 11
    /\ shuffled[1] = LongWord
    /\ Count(shuffled, LongWord) = 1
    /\ Len(dev) = 10

----------------------------------------------------------------------------
(* Claims about compute_perplexity *)

\* the places (row, position) of a data set whose symbol is a scored target:
\* the positions 1..T-1 (of the code) of every row that are not padding
ScoredPlaces(dataset) ==
    { p \in (1..Len(dataset)) \X (2..Len(dataset[1])) : dataset[p[1]][p[2]] # 0 }

\* the negative log-likelihood of the symbol at a place given the symbols
\* before it
PlaceNll(dataset, theta, p) ==
    NllTerm(theta, [ctx |-> SubSeq(dataset[p[1]], 1, p[2] - 1)],
            dataset[p[1]][p[2]])

RECURSIVE SumPlaces(_, _, _)
SumPlaces(dataset, theta, places) ==
    IF places = {} THEN 0
    ELSE LET p == CHOOSE q \in places : TRUE
         IN  PlaceNll(dataset, theta, p)
             + SumPlaces(dataset, theta, places \ {p})

\* C2: compute_perplexity returns exp(S/N), S the negative log-likelihood
\* summed over the scored target positions (positions 1..T-1 that are not
\* padding) and N the number of those same positions.
C2_PerplexityPerScoredSymbol ==
    ev # NoCall =>
        LET places == ScoredPlaces(ev.dataset)
            S == SumPlaces(ev.dataset, ev.net, places)
            N == Cardinality(places)
        IN  /\ ev.nll = Fin(S)
            /\ ev.total_unmasked_tokens = N
            /\ ev.perplexity = TorchExp(Div(Fin(S), N))

\* the (summed NLL, unmasked-token count) pair of an accumulation
PairOf(acc) == << acc.nll, acc.total_unmasked_tokens >>
PairSum(p, q) == << Add(p[1], q[1]), p[2] + q[2] >>

\* C3: the (summed NLL, unmasked-token count) pair accumulated over a data
\* set D equals the componentwise sum of the pairs accumulated over D1 and
\* D2 for every split D = D1 D2 and all batch sizes, and the perplexity of D
\* is the same for every batch size.
C3_AccumulationIsAdditive ==
    ev # NoCall =>
        /\ \A k \in 0..Len(ev.dataset) : \A b1, b2 \in 1..MaxBsz :
             PairOf(ev) =
                PairSum(PairOf(Accumulate(SubSeq(ev.dataset, 1, k), net, b1)),
                        PairOf(Accumulate(SubSeq(ev.dataset, k + 1,
                                                 Len(ev.dataset)), net, b2)))
        /\ \A b \in 1..(MaxBsz + 1) :
             ComputePerplexity(ev.dataset, net, b).perplexity = ev.perplexity

\* C3 witness: three different rows evaluated in batches of two (the last
\* batch is short) by an ordinary network.
C3_Witness ==
    /\ ev # NoCall
    /\ Len(ev.dataset) = 3
    /\ Cardinality(Range(ev.dataset)) = 3
    /\ ev.bsz = 2
    /\ net # DivergedNet
    /\ ev.nll.v > 0
    /\ ev.perplexity.k = "exp"

----------------------------------------------------------------------------
(* Claims about train_lm *)

\* C1: when an epoch's validation perplexity has been computed, training
\* stops at once if and only if that perplexity exceeds the baseline by more
\* than 0.01, the baseline being the previous epoch's validation perplexity
\* (the initial sentinel in the first epoch).
C1_StopsOnRiseOverPreviousEpoch ==
    [][ (tr_pc = "batch" /\ tr_pc' # "batch") =>
            LET baseline == IF epoch = 0 THEN Sentinel ELSE dev_perplexity
            IN  (tr_pc' = "stopped")
                    <=> DiffExceedsTolerance(dev_perplexity', baseline) ]_vars

\* the loss terms of a batch: (row, position t of the score, symbol at
\* position t + 1) for t in 0..T-2 with a symbol other than padding at t + 1
ExpectedTerms(batch) ==
    { << p[1] - 1, p[2] - 2, batch[p[1]][p[2]] >> : p \in ScoredPlaces(batch) }

\* C4: in the training step and in the evaluator the loss terms are the
\* pairs (score at position t, symbol at position t + 1), t in 0..T-2, whose
\* symbol is not padding, and nothing else adds to the loss: the training
\* loss is the mean and the evaluator's sum is the sum over these terms.
C4_ShiftedMaskedTerms ==
    /\ last_step # NoStep =>
          LET places == ScoredPlaces(last_step.batch)
          IN  /\ last_step.terms = ExpectedTerms(last_step.batch)
              /\ last_step.loss =
                    Div(Fin(SumPlaces(last_step.batch, last_step.net, places)),
                        Cardinality(places))
    /\ ev # NoCall =>
          /\ ev.terms = ExpectedTerms(ev.dataset)
          /\ ev.nll = Fin(SumPlaces(ev.dataset, ev.net,
                                    ScoredPlaces(ev.dataset)))

\* C4 witness: a training step on a batch of two rows, one of them padded,
\* and an evaluation of two rows, one of them padded.
C4_Witness ==
    /\ last_step # NoStep
    /\ Len(last_step.batch) = 2
    /\ \E r \in 1..2 : last_step.batch[r][3] = 0
    /\ Cardinality(last_step.terms) = 3
    /\ last_step.net # DivergedNet
    /\ ev # NoCall
    /\ Len(ev.dataset) = 2
    /\ Cardinality(ev.terms) = 3

\* C8: a training batch whose loss is not finite aborts the run with a
\* fatal error, and no parameter update is applied for that batch.
C8_NonFiniteLossAborts ==
    (last_step # NoStep /\ last_step.loss.k # "fin") =>
        /\ tr_pc = "aborted"
        /\ ~last_step.updated

\* ceil(n / b)
CeilDiv(n, b) == (n + b - 1) \div b

\* the examples (0-based) a (start, end) pair selects from n examples
Selected(pair, n) == { i \in 0..(n - 1) : pair[1] <= i /\ i < pair[2] }

\* the epochs whose batches have all been processed
EpochsCompleted == IF tr_pc = "stopped" THEN epoch + 1 ELSE epoch

\* C16 (state part): once train_lm has set up its batches for n >= 1
\* examples and batch size b, they are the ranges [0,b), [b,2b), ... in some
\* order, each once; every example is in exactly one of them; only the
\* batch with the last example can hold fewer than b examples; the batches
\* processed in this epoch are the first b_idx of the epoch's order, the
\* last step having taken the rows of its range in data-set order; and
\* every completed epoch has made exactly ceil(n/b) updates.
C16_BatchesPartition ==
    LET n == Len(training_data)
        b == params.batch_size
    IN  (tr_pc # "idle" /\ n >= 1) =>
          /\ Len(batches) = CeilDiv(n, b)
          /\ { batches[k] : k \in 1..Len(batches) }
                = { << j * b, j * b + b >> : j \in 0..(CeilDiv(n, b) - 1) }
          /\ \A i \in 0..(n - 1) :
                Cardinality({ k \in 1..Len(batches) :
                                i \in Selected(batches[k], n) }) = 1
          /\ \A k \in 1..Len(batches) :
                \/ Cardinality(Selected(batches[k], n)) = b
                \/ (n - 1) \in Selected(batches[k], n)
          /\ b_idx <= Len(batches)
          /\ (tr_pc = "batch" /\ b_idx >= 1) =>
                /\ last_step.start = batches[b_idx][1]
                /\ last_step.batch =
                      [j \in 1..Cardinality(Selected(batches[b_idx], n)) |->
                          training_data[batches[b_idx][1] + j]]
          /\ opt_state = IF tr_pc = "batch"
                         THEN EpochsCompleted * CeilDiv(n, b) + b_idx
                         ELSE EpochsCompleted * CeilDiv(n, b)

\* C16: the batches partition the training set as above in every state,
\* and no step changes the training set.
C16_ContiguousBatchesOncePerEpoch ==
    []C16_BatchesPartition /\ [][training_data' = training_data]_vars

\* C16 witness: three examples in batches of two; in the second epoch the
\* short batch came first and has been processed, after the two updates of
\* the first epoch.
C16_Witness ==
    /\ Len(training_data) = 3
    /\ params.batch_size = 2
    /\ tr_pc = "batch"
    /\ epoch = 1
    /\ b_idx = 1
    /\ batches[1] = << 2, 4 >>
    /\ Len(last_step.batch) = 1
    /\ opt_state = 3

Terminated == tr_pc \in { "stopped", "done" }

\* C17 (state part): train_lm runs at most params['epochs'] epochs and has
\* made exactly one call of compute_perplexity for every epoch it has
\* completed, so at most params['epochs'] calls.
C17_WithinEpochCap ==
    /\ epoch <= params.epochs
    /\ tr_pc = "batch" => epoch < params.epochs
    /\ EpochsCompleted <= params.epochs
    /\ ev_calls = EpochsCompleted
    /\ tr_pc = "done" => epoch = params.epochs

\* C17: train_lm terminates for every training set and epoch cap E >= 0,
\* within the cap above, and after it has stopped early (or ended) no batch
\* is processed and no evaluation is made.
C17_TerminatesWithinEpochCap ==
    /\ <>Terminated
    /\ []C17_WithinEpochCap
    /\ [][ Terminated =>
              /\ Terminated'
              /\ last_step' = last_step
              /\ opt_state' = opt_state
              /\ ev_calls' = ev_calls ]_vars

\* C17 witness: early stopping has ended a run of two epochs after the
\* first one, with one evaluation and that epoch's updates made.
C17_Witness ==
    /\ tr_pc = "stopped"
    /\ params.epochs = 2
    /\ epoch = 0
    /\ ev_calls = 1
    /\ opt_state = Len(batches)
    /\ Len(batches) = 2

----------------------------------------------------------------------------
(* Claims about the module object in the pipeline *)

TyingApplies == params.tied /\ params.d_emb = params.d_hid

C12_EvaluatorInInferenceMode ==
    [][ ev_calls' # ev_calls => ~training ]_vars

\* C13: a call of compute_perplexity and a step of get_probs leave the
\* parameters, the gradients and the optimizer state as they were; the
\* parameters of a constructed module change only in an update step of
\* train_lm; and every update starts from zeroed gradients.
C13_OnlyTheUpdateStepMutates ==
    [][ /\ (ev_calls' # ev_calls \/ gpVars' # gpVars) =>
              /\ net' = net
              /\ weight' = weight
              /\ R2o_weight' = R2o_weight
              /\ grad' = grad
              /\ opt_state' = opt_state
        /\ (net # NoNet /\ (net' # net \/ weight' # weight)) =>
              /\ tr_pc = "batch"
              /\ opt_state' = opt_state + 1
              /\ ev_calls' = ev_calls
        /\ (opt_state' = opt_state + 1) => grad = 0 ]_vars

\* C13 witness: the first update of the second epoch has been made, after
\* the validation call that ended the first epoch.
C13_Witness ==
    /\ tr_pc = "batch"
    /\ epoch = 1
    /\ b_idx = 1
    /\ ev_calls = 1
    /\ opt_state = Len(batches) + 1
    /\ last_step.net # net

----------------------------------------------------------------------------
(* Claims about get_probs *)

\* the symbols of an input word: the pieces of its line between blanks
WordSymbols(line) ==
    LET pieces == Split(RStrip(line))
    IN  { StrOf(pieces[i]) : i \in 1..Len(pieces) }

HasUnknownSymbol(line) == \E sym \in WordSymbols(line) : sym \notin Range(inventory)

Surface(line) == Flatten(Split(RStrip(line)))

\* the index sequence of an input word between its two markers
EncodedWord(line) ==
    LET pieces == Split(RStrip(line))
    IN  << phone2ix["<s>"] >>
        \o [j \in 1..Len(pieces) |-> phone2ix[StrOf(pieces[j])]]
        \o << phone2ix["<e>"] >>

AllSymbolsKnown == \A i \in 1..Len(input_file) : ~HasUnknownSymbol(input_file[i])

\* C14: for an input file all of whose symbols are in the vocabulary,
\* get_probs does not raise, the rows written so far are the rows of the
\* first input words in input order, the i-th row being the surface form of
\* the i-th word with the perplexity compute_perplexity returns for that
\* word alone as a batch of one, and when get_probs is done there is one
\* row for every input word.
C14_OneRowPerWordInOrder ==
    (AllSymbolsKnown /\ gp_pc # "idle") =>
        /\ gp_pc # "raised"
        /\ Len(out_file) = w_idx
        /\ w_idx <= line_no
        /\ \A i \in 1..Len(out_file) :
              out_file[i] =
                 << Surface(input_file[i]),
                    ComputePerplexity(<< EncodedWord(input_file[i]) >>,
                                      net, 1).perplexity >>
        /\ gp_pc = "done" => Len(out_file) = Len(input_file)

\* C14 witness: a finished call on a file of two words of different
\* lengths, whose rows differ in both columns.
C14_Witness ==
    /\ gp_pc = "done"
    /\ AllSymbolsKnown
    /\ Len(input_file) = 2
    /\ Len(out_file) = 2
    /\ out_file[1][1] = << "a" >>
    /\ out_file[2][1] = << "a", "a" >>
    /\ out_file[1][2] # out_file[2][2]

====
